---- MODULE Spec2Model ----
(***************************************************************************)
(* redMaGiC calibration: the parameter fitter of                           *)
(* redmapper/redmagic/redmagic_calibrate.py (RedmagicParameterFitter), the *)
(* calibration loop that drives it (RedmagicCalibrator.run) and the radius *)
(* search of redmapper/cluster.py (Cluster.find_members).                  *)
(*                                                                         *)
(* Units.  All quantities are integers on fixed grids:                     *)
(*   redshift       1 unit = 0.0001  (so the 0.0001 of the histogram's     *)
(*                  upper edge is exactly one unit, Eps)                   *)
(*   chi-square     1 unit = 0.1     (so the lower clip 0.1 is ClipLo = 1) *)
(*   error ratio    1 unit = 0.25    (EratioUnit units make a ratio of 1)  *)
(*   volume         1 unit = 1e4     (so n0 * 1e-4 * volume = n0 * volume) *)
(*   etamin         1 unit = 0.1                                           *)
(*   magnitude      1 unit = 0.5 mag                                       *)
(* Costs are exact rationals with a decimal exponent; division by zero     *)
(* follows IEEE-754 as numpy does (inf, nan, no exception).                *)
(***************************************************************************)
EXTENDS Integers, Sequences, FiniteSets, TLC

VARIABLES fitter, outcome, run, cluster

vars == <<fitter, outcome, run, cluster>>

(***************************************************************************)
(* Python None and optional values.                                        *)
(***************************************************************************)
PyNone == [none |-> TRUE, v |-> <<>>]

Some(s) == [none |-> FALSE, v |-> s]

(***************************************************************************)
(* Floating-point results: a finite value num/den * 10^e, inf or nan.      *)
(***************************************************************************)
Fin(n, d) == [k |-> "fin", num |-> n, den |-> d, e |-> 0]

Inf == [k |-> "inf", num |-> 0, den |-> 1, e |-> 0]

NaN == [k |-> "nan", num |-> 0, den |-> 1, e |-> 0]

\* The literal 1e11 returned for an empty selection.
Penalty == [k |-> "fin", num |-> 1, den |-> 1, e |-> 11]

RECURSIVE DivPow10(_, _)
\* floor(a / 10^d), by d floor divisions (10^11 does not fit a machine integer)
DivPow10(a, d) == IF d = 0 THEN a ELSE DivPow10(a \div 10, d - 1)

\* a < b for finite a, b (den > 0): a.num*b.den*10^a.e < b.num*a.den*10^b.e
FinLess(a, b) ==
    LET l == a.num * b.den
        r == b.num * a.den
    IN  IF a.e = b.e THEN l < r
        ELSE IF a.e < b.e THEN DivPow10(l, b.e - a.e) < r
        ELSE l < -DivPow10(-r, a.e - b.e)

\* IEEE-754 a < b: false whenever a nan is involved
FLess(a, b) ==
    IF a.k = "nan" \/ b.k = "nan" THEN FALSE
    ELSE IF a.k = "inf" THEN FALSE
    ELSE IF b.k = "inf" THEN TRUE
    ELSE FinLess(a, b)

\* IEEE-754 a == b on values
FEq(a, b) ==
    IF a.k = "nan" \/ b.k = "nan" THEN FALSE
    ELSE IF a.k = "inf" \/ b.k = "inf" THEN a.k = b.k
    ELSE ~FinLess(a, b) /\ ~FinLess(b, a)

\* IEEE-754 a + b for non-negative operands
FAdd(a, b) ==
    IF a.k = "nan" \/ b.k = "nan" THEN NaN
    ELSE IF a.k = "inf" \/ b.k = "inf" THEN Inf
    ELSE Fin(a.num * b.den + b.num * a.den, a.den * b.den)

Min(a, b) == IF a < b THEN a ELSE b

Max(a, b) == IF a > b THEN a ELSE b

\* np.clip(x, lo, hi)
Clip(x, lo, hi) == Min(Max(x, lo), hi)

(***************************************************************************)
(* Program constants.                                                      *)
(***************************************************************************)
\* 0.1, the lower clip of the chi-square threshold
ClipLo == 1

\* 0.0001, taken off the upper edge of the histogram range
Eps == 1

\* an error ratio of 1.0
EratioUnit == 4

(***************************************************************************)
(* Collaborators.                                                          *)
(***************************************************************************)
\* CubicSpline(nodes, vals)(x): constant on one node; on two nodes the
\* natural cubic spline is the straight line through them, also outside
\* the node range.  Node values and redshifts are taken on grids where the
\* line is integer valued.
CubicSpline(nodes, vals, x) ==
    IF Len(nodes) = 1 THEN vals[1]
    ELSE vals[1] + ((vals[2] - vals[1]) * (x - nodes[1])) \div (nodes[2] - nodes[1])

\* zredstr.mstar(z): the red-sequence characteristic magnitude, fainter with
\* redshift
MstarBase == 10

MstarOf(x) == MstarBase + x

\* 2.5 * np.log10(etamin), etamin in units of 0.1, result in units of 0.5 mag
Log10x25(etamin) ==
    CASE etamin = 1 -> -5
      [] etamin = 10 -> 0
      [] etamin = 100 -> 5

(***************************************************************************)
(* Model inputs: a small catalogue of galaxies and the parameter vectors   *)
(* the operations are called with.                                         *)
(***************************************************************************)
\* the longest galaxy array a fitter is constructed on (Spec)
MaxGal == 1

\* the longest galaxy array the cost function is evaluated on (SpecCost)
MaxGalCost == 2

Gal(z, z_err, chisq, refmag, zcal, randomn, zmax) ==
    [z |-> z, z_err |-> z_err, chisq |-> chisq, refmag |-> refmag,
     zcal |-> zcal, zcal_err |-> IF zcal > 0 THEN 1 ELSE -1,
     randomn |-> randomn, zmax |-> zmax]

Catalog ==
    { Gal(0, 0, 0, 9, 1, 0, 5),
      Gal(2, 2, 1, 9, -1, 1, 5),
      Gal(2, 0, 2, 12, 2, 0, 3),
      Gal(4, 2, 1, 12, -1, -1, 5),
      Gal(2, 2, 3, 9, 3, -1, 5) }

GalSeqs(maxn) == UNION {[1..n -> Catalog] : n \in 0..maxn}

\* chi-square threshold values at the two nodes
ParSet == {<<0, 0>>, <<2, 2>>, <<8, 8>>, <<0, 4>>}

\* starting vectors handed to fit
P0Set == {<<2, 2>>, <<0, 4>>}

\* bias values at the two correction nodes
BiasSet == {<<0, 0>>, <<-2, 2>>}

\* error-ratio values at the two correction nodes
EratioSet == {<<2, 6>>}

NodeSet == {<<0, 4>>}

ZrangeSet == {<<0, 4>>, <<0>>, <<0, 4, 8>>}

ZbinsizeSet == {2}

MaxchiSet == {3}

EtaminSet == {1, 10}

N0Set == {1, 2}

VolumeValues == {<<1, 1>>, <<0, 1>>, <<2, 1>>}

\* the target density and bin volumes of the fitters whose whole life is
\* followed: fit and fit_bias_eratio use neither
LifeN0Set == {1}

LifeVolumeValues == {<<1, 1>>, <<0, 1>>}

\* one maximum redshift for every galaxy
ZmaxScalar == <<3>>

\* the constructor's per-galaxy array arguments that are checked against z
CheckedArrays == {"z_err", "chisq", "mstar", "zcal", "zcal_err", "refmag", "randomn"}

\* the sets of arguments a constructor call passes one element short
ShortSets == {s \in SUBSET CheckedArrays : Cardinality(s) <= 2}

(***************************************************************************)
(* The fitter object and the record of the last call made on it.           *)
(***************************************************************************)
NoFitter == [made |-> FALSE]

\* no calibration started, no cluster search made
NoRun == [pc |-> "none"]

NoCluster == [op |-> "none"]

NoOutcome ==
    [op |-> "none", status |-> "ok", msg |-> "", lens |-> <<>>,
     afterburner |-> FALSE, given |-> FALSE, prevAb |-> FALSE,
     prevCorr |-> FALSE,
     minimized |-> FALSE, pars |-> <<>>, ret |-> PyNone,
     repeat |-> FALSE, nab |-> 0]

N(f) == Len(f.z)

(***************************************************************************)
(* RedmagicParameterFitter.__call__: the cost function.                    *)
(***************************************************************************)
\* the threshold taken at the corrected instead of the raw redshift
Chi2maxCorrected(f, pars, i) ==
    Clip(CubicSpline(f.nodes, pars, f.zredmagic[i]), ClipLo, f.maxchi)

\* chi2max = np.clip(spl(self._z), 0.1, self._maxchi), at galaxy i
Chi2max(f, pars, i) == Clip(CubicSpline(f.nodes, pars, f.z[i]), ClipLo, f.maxchi)

\* the sample drawn around the raw instead of the corrected redshift
ZsampRaw(f, i) == f.randomn[i] * f.z_err[i] + f.z[i]

\* zsamp = self._randomn * self._zredmagic_e + self._zredmagic, at galaxy i
Zsamp(f, i) == f.randomn[i] * f.zredmagic_e[i] + f.zredmagic[i]

\* self._zmax broadcast against the galaxy arrays
ZmaxAt(f, i) == IF Len(f.zmax) = 1 THEN f.zmax[1] ELSE f.zmax[i]

\* the zmax cut taken against the first entry of zmax for every galaxy
SelectedFirstZmax(f, pars, i) ==
    /\ f.chisq[i] < Chi2max(f, pars, i)
    /\ f.refmag[i] < f.mstar[i] - Log10x25(f.etamin)
    /\ f.zredmagic[i] < f.zmax[1]

\* the three cuts of np.where, at galaxy i
Selected(f, pars, i) ==
    /\ f.chisq[i] < Chi2max(f, pars, i)
    /\ f.refmag[i] < f.mstar[i] - Log10x25(f.etamin)
    /\ f.zredmagic[i] < ZmaxAt(f, i)

Gd(f, pars) == {i \in 1..N(f) : Selected(f, pars, i)}

HistMin(f) == f.zrange[1]

HistMax(f) == f.zrange[2] - Eps

\* esutil.stat.histogram: int((max - min) / binsize) + 1 bins
NBin(f) == ((HistMax(f) - HistMin(f)) \div f.zbinsize) + 1

\* esutil.stat.histogram: values outside [min, max] are dropped, the others
\* fall in bin int((x - min) / binsize)
HistBin(f, x) == ((x - HistMin(f)) \div f.zbinsize) + 1

Histogram(f, gd) ==
    [b \in 1..NBin(f) |->
        Cardinality({i \in gd : /\ Zsamp(f, i) >= HistMin(f)
                                /\ Zsamp(f, i) <= HistMax(f)
                                /\ HistBin(f, Zsamp(f, i)) = b})]

\* the density residual multiplied by the expected count instead of divided
TermInverted(f, h, b) ==
    LET V == f.volume[b]
        E == f.n0 * V
    IN  IF V = 0 THEN NaN
        ELSE IF E = 0 THEN (IF h[b] = 0 THEN NaN ELSE Inf)
        ELSE Fin((h[b] - E) * (h[b] - E) * E, 1)

\* ((den - n0*1e-4) / den_err)**2 in bin b, with den = h / volume and
\* den_err = sqrt(n0*1e-4*volume) / volume.  A zero volume makes den_err
\* 0/0 = nan; a zero n0 makes den_err 0, and the quotient inf or 0/0 = nan;
\* otherwise the value is (h - n0*volume)^2 / (n0*volume).
Term(f, h, b) ==
    LET V == f.volume[b]
        E == f.n0 * V
    IN  IF V = 0 THEN NaN
        ELSE IF E = 0 THEN (IF h[b] = 0 THEN NaN ELSE Inf)
        ELSE Fin((h[b] - E) * (h[b] - E), E)

RECURSIVE SumTerms(_, _, _)
\* np.sum over bins 1..b
SumTerms(f, h, b) ==
    IF b = 0 THEN Fin(0, 1) ELSE FAdd(SumTerms(f, h, b - 1), Term(f, h, b))

\* __call__ without the early return on an empty selection
CostFunctionNoPenalty(f, pars) ==
    SumTerms(f, Histogram(f, Gd(f, pars)), NBin(f))

\* the value __call__ returns
CostFunction(f, pars) ==
    LET gd == Gd(f, pars)
    IN  IF gd = {} THEN Penalty
        ELSE SumTerms(f, Histogram(f, gd), NBin(f))

\* __call__ storing the sampled redshifts over the corrected ones
CallStateKeepSample(f, pars) ==
    [f EXCEPT !.zredmagic = [i \in 1..N(f) |-> Zsamp(f, i)]]

\* the fitter after __call__: nothing is assigned
CallState(f, pars) == f

(***************************************************************************)
(* RedmagicParameterFitter.__init__                                        *)
(***************************************************************************)
\* the column `name` of a galaxy list; mstar is zredstr.mstar of the raw
\* redshift, as the calibrator passes it
Column(gals, name) ==
    [i \in 1..Len(gals) |->
        IF name = "mstar" THEN MstarOf(gals[i].z) ELSE gals[i][name]]

\* the array passed for `name`: one element short when name is in short
ArrayArg(gals, short, name) ==
    LET a == Column(gals, name)
    IN  IF name \in short THEN SubSeq(a, 1, Len(a) - 1) ELSE a

\* the sizes the constructor compares
ArgLens(gals, short, zr) ==
    [z |-> Len(gals),
     z_err |-> Len(ArrayArg(gals, short, "z_err")),
     chisq |-> Len(ArrayArg(gals, short, "chisq")),
     mstar |-> Len(ArrayArg(gals, short, "mstar")),
     zcal |-> Len(ArrayArg(gals, short, "zcal")),
     zcal_err |-> Len(ArrayArg(gals, short, "zcal_err")),
     refmag |-> Len(ArrayArg(gals, short, "refmag")),
     randomn |-> Len(ArrayArg(gals, short, "randomn")),
     zrange |-> Len(zr)]

\* __init__ without the check of zcal_err, the array the fitter never reads
InitErrorSkipZcalErr(lens) ==
    IF lens.z # lens.z_err THEN "Number of z must be equal to z_err"
    ELSE IF lens.z # lens.chisq THEN "Number of z must be equal to chisq"
    ELSE IF lens.z # lens.mstar THEN "Number of z must be equal to mstar"
    ELSE IF lens.z # lens.zcal THEN "Number of z must be equal to zcal"
    ELSE IF lens.z # lens.refmag THEN "Number of z must be equal to refmag"
    ELSE IF lens.z # lens.randomn THEN "Number of z must be equal to randomn"
    ELSE IF lens.zrange # 2 THEN "zrange must have 2 elements"
    ELSE ""

\* the message of the first ValueError the constructor raises, "" if none
InitError(lens) ==
    IF lens.z # lens.z_err THEN "Number of z must be equal to z_err"
    ELSE IF lens.z # lens.chisq THEN "Number of z must be equal to chisq"
    ELSE IF lens.z # lens.mstar THEN "Number of z must be equal to mstar"
    ELSE IF lens.z # lens.zcal THEN "Number of z must be equal to zcal"
    ELSE IF lens.z # lens.zcal_err THEN "Number of z must be equal to zcal_err"
    ELSE IF lens.z # lens.refmag THEN "Number of z must be equal to refmag"
    ELSE IF lens.z # lens.randomn THEN "Number of z must be equal to randomn"
    ELSE IF lens.zrange # 2 THEN "zrange must have 2 elements"
    ELSE ""

\* the object the assignments of __init__ build
NewFitter(gals, short, nodes, corrnodes, zmax, etamin, n0, volume, zr, zbinsize, maxchi, ab_use) ==
    [made |-> TRUE,
     nodes |-> nodes,
     corrnodes |-> corrnodes,
     z |-> Column(gals, "z"),
     z_err |-> ArrayArg(gals, short, "z_err"),
     zredmagic |-> Column(gals, "z"),
     zredmagic_e |-> ArrayArg(gals, short, "z_err"),
     chisq |-> ArrayArg(gals, short, "chisq"),
     mstar |-> ArrayArg(gals, short, "mstar"),
     zcal |-> ArrayArg(gals, short, "zcal"),
     zcal_err |-> ArrayArg(gals, short, "zcal_err"),
     refmag |-> ArrayArg(gals, short, "refmag"),
     randomn |-> ArrayArg(gals, short, "randomn"),
     zmax |-> zmax,
     etamin |-> etamin,
     n0 |-> n0,
     volume |-> volume,
     zrange |-> zr,
     zbinsize |-> zbinsize,
     ab_use |-> ab_use,
     maxchi |-> maxchi,
     afterburner |-> FALSE]

\* zmax: one value, or one per galaxy
ZmaxArgs(gals) == {ZmaxScalar, Column(gals, "zmax")}

\* ab_use: absent, empty, or every position of the arrays
AbUseArgs(gals) == {PyNone, Some(<<>>), Some([i \in 1..Len(gals) |-> i])}

\* the fitters a constructor call that passes the checks can build on gals:
\* volume has one entry per histogram bin
ConstructedOn(gals, short, zr, n0s, volumes) ==
    {f \in {NewFitter(gals, short, nodes, corrnodes, zmax, etamin, n0, volume,
                      zr, zbinsize, maxchi, ab_use) :
                nodes \in NodeSet, corrnodes \in NodeSet,
                zmax \in ZmaxArgs(gals), etamin \in EtaminSet, n0 \in n0s,
                volume \in volumes, zbinsize \in ZbinsizeSet,
                maxchi \in MaxchiSet, ab_use \in AbUseArgs(gals)} :
        Len(f.volume) = NBin(f)}

\* one constructor call in the life of a fitter object: a call that raises
\* leaves no object to work on
Construct ==
    /\ ~fitter.made
    /\ outcome.op = "none"
    /\ \E gals \in GalSeqs(MaxGal), short \in ShortSets, zr \in ZrangeSet :
          /\ short # {} => Len(gals) >= 1
          /\ LET lens == ArgLens(gals, short, zr)
                 msg == InitError(lens)
             IN  IF msg # ""
                 THEN /\ fitter' = NoFitter
                      /\ outcome' = [NoOutcome EXCEPT !.op = "init",
                                        !.status = "ValueError",
                                        !.msg = msg, !.lens = lens]
                 ELSE /\ fitter' \in ConstructedOn(gals, short, zr, LifeN0Set,
                                                    LifeVolumeValues)
                      /\ outcome' = [NoOutcome EXCEPT !.op = "init",
                                        !.lens = lens]
    /\ UNCHANGED <<run, cluster>>

(***************************************************************************)
(* RedmagicParameterFitter.fit                                             *)
(***************************************************************************)
\* fit without the check of self._ab_use
FitErrorNoAbUseCheck(f, afterburner, biaspars, eratiopars) ==
    IF afterburner /\ (biaspars.none \/ eratiopars.none)
    THEN "Must set biaspars, eratiopars if using the afterburner"
    ELSE ""

\* the message of the RuntimeError fit raises, "" if none
FitError(f, afterburner, biaspars, eratiopars) ==
    IF f.ab_use.none /\ afterburner
    THEN "Must set afterburner_use if using the afterburner"
    ELSE IF afterburner /\ (biaspars.none \/ eratiopars.none)
    THEN "Must set biaspars, eratiopars if using the afterburner"
    ELSE ""

\* the fitter a raising fit leaves: the first raise precedes every
\* assignment, the second follows self._afterburner = afterburner
FitRaiseState(f, afterburner, biaspars, eratiopars) ==
    IF f.ab_use.none /\ afterburner THEN f
    ELSE [f EXCEPT !.afterburner = afterburner]

\* fit whose else branch leaves the corrected redshifts as they are
FitZredmagicKeep(f, afterburner, biaspars) ==
    IF afterburner
    THEN [i \in 1..N(f) |-> f.z[i] - CubicSpline(f.corrnodes, biaspars.v, f.z[i])]
    ELSE f.zredmagic

\* self._zredmagic after the if/else on afterburner
FitZredmagic(f, afterburner, biaspars) ==
    IF afterburner
    THEN [i \in 1..N(f) |-> f.z[i] - CubicSpline(f.corrnodes, biaspars.v, f.z[i])]
    ELSE f.z

\* self._zredmagic_e after the if/else on afterburner
FitZredmagicE(f, afterburner, eratiopars) ==
    IF afterburner
    THEN [i \in 1..N(f) |->
            (f.z_err[i] * CubicSpline(f.corrnodes, eratiopars.v, f.z[i])) \div EratioUnit]
    ELSE f.z_err

\* the fitter as the minimizer sees it
FitState(f, afterburner, biaspars, eratiopars) ==
    LET zr == FitZredmagic(f, afterburner, biaspars)
    IN  [f EXCEPT !.afterburner = afterburner,
                  !.zredmagic = zr,
                  !.zredmagic_e = FitZredmagicE(f, afterburner, eratiopars),
                  !.mstar = [i \in 1..N(f) |-> MstarOf(zr[i])]]

\* scipy.optimize.fmin(self, p0_cval): some vector that costs no more than
\* the starting one
Fmin(f, p0) == {r \in ParSet : ~FLess(CostFunction(f, p0), CostFunction(f, r))}

OptArgs(S) == {PyNone} \cup {Some(x) : x \in S}

Fit ==
    /\ fitter.made
    /\ \E p0 \in P0Set, biaspars \in OptArgs(BiasSet),
          eratiopars \in OptArgs(EratioSet), afterburner \in BOOLEAN :
          LET msg == FitError(fitter, afterburner, biaspars, eratiopars)
              out == [NoOutcome EXCEPT !.op = "fit",
                         !.afterburner = afterburner,
                         !.given = ~biaspars.none /\ ~eratiopars.none,
                         !.prevAb = fitter.afterburner,
                         !.prevCorr = (fitter.zredmagic # fitter.z
                                        \/ fitter.zredmagic_e # fitter.z_err)]
          IN  IF msg # ""
              THEN /\ fitter' = FitRaiseState(fitter, afterburner, biaspars, eratiopars)
                   /\ outcome' = [out EXCEPT !.status = "RuntimeError", !.msg = msg]
              ELSE LET g == FitState(fitter, afterburner, biaspars, eratiopars)
                   IN  /\ fitter' = g
                       /\ \E r \in Fmin(g, p0) :
                             outcome' = [out EXCEPT !.minimized = TRUE, !.ret = r]
    /\ UNCHANGED <<run, cluster>>

(***************************************************************************)
(* RedmagicParameterFitter.fit_bias_eratio                                 *)
(***************************************************************************)
\* the number of axes of ab_mask: indexing a 1-d array with None adds an
\* axis, indexing it with an index array keeps one
AbMaskNdim(f) == IF f.ab_use.none THEN 2 ELSE 1

\* "ab_gd = np.where(ab_mask)[0]": no unpacking, nothing raised
WhereTakeFirst(f) == FALSE

\* "ab_gd, = np.where(ab_mask)": np.where returns one index array per axis
\* and the unpacking into one name raises ValueError unless there is one
WhereUnpackRaises(f) == AbMaskNdim(f) # 1

\* the three cuts at the held-out position i
AbMask(f, cval, i) ==
    /\ f.chisq[i] < Chi2max(f, cval, i)
    /\ f.refmag[i] < f.mstar[i] - Log10x25(f.etamin)
    /\ IF Len(f.zmax) > 1 THEN f.zredmagic[i] < f.zmax[i]
       ELSE f.zredmagic[i] < f.zmax[1]

\* ab_gd = self._ab_use[ab_gd]
AbGd(f, cval) == SelectSeq(f.ab_use.v, LAMBDA i : AbMask(f, cval, i))

\* MedZFitter(...).fit(p0, min_val, max_val): node values inside the clip
\* range
MedZFit(S, p0) == S

FitBiasEratio ==
    /\ fitter.made
    /\ \E cval \in ParSet, p0_bias \in BiasSet, p0_eratio \in EratioSet :
          LET out == [NoOutcome EXCEPT !.op = "fit_bias_eratio"]
          IN  IF WhereUnpackRaises(fitter)
              THEN /\ outcome' = [out EXCEPT !.status = "ValueError",
                                     !.msg = "too many values to unpack"]
                   /\ UNCHANGED fitter
              ELSE \E pars_bias \in MedZFit(BiasSet, p0_bias),
                      pars_eratio \in MedZFit(EratioSet, p0_eratio) :
                      /\ outcome' = [out EXCEPT !.ret = <<pars_bias, pars_eratio>>,
                                        !.nab = Len(AbGd(fitter, cval))]
                      /\ UNCHANGED fitter
    /\ UNCHANGED <<run, cluster>>

(***************************************************************************)
(* A cost evaluation from outside fit.                                     *)
(***************************************************************************)
Call ==
    /\ fitter.made
    /\ \E pars \in ParSet :
          /\ fitter' = CallState(fitter, pars)
          /\ outcome' = [NoOutcome EXCEPT !.op = "call",
                            !.pars = pars,
                            !.ret = CostFunction(fitter, pars),
                            !.repeat = (outcome.op = "call" /\ outcome.pars = pars)]
    /\ UNCHANGED <<run, cluster>>

Init ==
    /\ fitter = NoFitter
    /\ outcome = NoOutcome
    /\ run = NoRun
    /\ cluster = NoCluster

Next == Construct \/ Fit \/ FitBiasEratio \/ Call

Spec == Init /\ [][Next]_vars

(***************************************************************************)
(* The cost function alone: it is evaluated on every fitter a successful   *)
(* construction, or a successful construction and one fit, leaves.         *)
(***************************************************************************)
Constructed(maxn) ==
    UNION {ConstructedOn(gals, {}, zr, N0Set, VolumeValues) :
              gals \in GalSeqs(maxn), zr \in {r \in ZrangeSet : Len(r) = 2}}

Fitted(f) ==
    {f} \cup {FitState(f, TRUE, Some(b), Some(e)) :
                b \in IF f.ab_use.none THEN {} ELSE BiasSet, e \in EratioSet}

InitCost ==
    /\ fitter \in UNION {Fitted(f) : f \in Constructed(MaxGalCost)}
    /\ outcome = NoOutcome
    /\ run = NoRun
    /\ cluster = NoCluster

NextCost == Call

SpecCost == InitCost /\ [][NextCost]_vars

(***************************************************************************)
(* Properties.                                                             *)
(***************************************************************************)
\* the chi-square threshold of galaxy i: the spline at the raw redshift,
\* held inside [0.1, maxchi]
RawThreshold(pars, i) ==
    LET s == CubicSpline(fitter.nodes, pars, fitter.z[i])
    IN  IF s < ClipLo THEN Min(ClipLo, fitter.maxchi)
        ELSE IF s > fitter.maxchi THEN fitter.maxchi ELSE s

\* galaxy i passes the three cuts
PassesCuts(pars, i) ==
    /\ fitter.chisq[i] < RawThreshold(pars, i)
    /\ fitter.refmag[i] < fitter.mstar[i] - Log10x25(fitter.etamin)
    /\ fitter.zredmagic[i] < (IF Len(fitter.zmax) = 1 THEN fitter.zmax[1]
                              ELSE fitter.zmax[i])

NonePasses(pars) == \A i \in 1..N(fitter) : ~PassesCuts(pars, i)

\* C1: whenever no galaxy passes the chi-square, luminosity and zmax cuts,
\* the cost function returns the penalty 1e11, for every parameter vector
\* and every fitter state, and the evaluation does not raise.
C1_EmptySelectionPenalty ==
    fitter.made =>
        /\ \A pars \in ParSet :
              NonePasses(pars) => CostFunction(fitter, pars) = Penalty
        /\ (outcome.op = "call" /\ NonePasses(outcome.pars)) =>
              (outcome.status = "ok" /\ outcome.ret = Penalty)

C1_Witness ==
    /\ fitter.made
    /\ N(fitter) >= 1
    /\ outcome.op = "call"
    /\ NonePasses(outcome.pars)
    /\ outcome.ret = Penalty

\* C2: after fit with afterburner=False the corrected redshifts and errors
\* equal the raw ones element for element, whatever bias and error-ratio
\* parameters were passed and whatever the corrected arrays held before.
C2_FitResetsCorrected ==
    (outcome.op = "fit" /\ ~outcome.afterburner) =>
        /\ outcome.status = "ok"
        /\ Len(fitter.zredmagic) = Len(fitter.z)
        /\ Len(fitter.zredmagic_e) = Len(fitter.z_err)
        /\ \A i \in 1..N(fitter) :
              /\ fitter.zredmagic[i] = fitter.z[i]
              /\ fitter.zredmagic_e[i] = fitter.z_err[i]

C2_Witness ==
    /\ outcome.op = "fit"
    /\ ~outcome.afterburner
    /\ outcome.given
    /\ outcome.prevAb
    /\ outcome.prevCorr
    /\ N(fitter) >= 1
    /\ fitter.zredmagic = fitter.z
    /\ fitter.zredmagic_e = fitter.z_err

\* C3: fit_bias_eratio raises an error whenever the fitter was constructed
\* without a held-out index set, for every threshold vector and every
\* initial guess, and returns nothing.
C3_FitBiasEratioNeedsAbUse ==
    (outcome.op = "fit_bias_eratio" /\ fitter.ab_use.none) =>
        /\ outcome.status \in {"ValueError", "RuntimeError"}
        /\ outcome.ret = PyNone

C3_Witness ==
    /\ outcome.op = "fit_bias_eratio"
    /\ fitter.ab_use.none
    /\ N(fitter) >= 1
    /\ outcome.status = "ValueError"

\* C4 as stated: fit with afterburner=True fails before the minimizer runs
\* whenever the held-out index set is absent or empty, and proceeds only
\* when the set is non-empty.
C4_Original ==
    (outcome.op = "fit" /\ outcome.afterburner) =>
        /\ (fitter.ab_use.none \/ Len(fitter.ab_use.v) = 0) =>
              (outcome.status # "ok" /\ ~outcome.minimized)
        /\ outcome.status = "ok" =>
              (~fitter.ab_use.none /\ Len(fitter.ab_use.v) > 0)

\* C4 as amended: fit with afterburner=True fails before the minimizer runs
\* whenever the held-out index set is absent (None); an index set that is
\* present is accepted even when it is empty, and fit then proceeds exactly
\* when biaspars and eratiopars are both supplied.
C4_FitNeedsAbUseNotNone ==
    (outcome.op = "fit" /\ outcome.afterburner) =>
        /\ fitter.ab_use.none =>
              (outcome.status = "RuntimeError" /\ ~outcome.minimized)
        /\ ~fitter.ab_use.none =>
              /\ outcome.given => (outcome.status = "ok" /\ outcome.minimized)
              /\ ~outcome.given => (outcome.status = "RuntimeError"
                                     /\ ~outcome.minimized)

C4_Witness ==
    /\ outcome.op = "fit"
    /\ outcome.afterburner
    /\ ~fitter.ab_use.none
    /\ Len(fitter.ab_use.v) = 0
    /\ N(fitter) >= 1
    /\ outcome.status = "ok"
    /\ outcome.minimized

\* some argument of the constructor has the wrong size
SizeMismatch(lens) ==
    \/ \E a \in CheckedArrays : lens[a] # lens.z
    \/ lens.zrange # 2

\* C5: construction fails exactly when one of z_err, chisq, mstar, zcal,
\* zcal_err, refmag, randomn differs in length from z or zrange does not
\* have two elements; otherwise it succeeds with the corrected arrays equal
\* to the raw z and z_err.
C5_ConstructionValidation ==
    outcome.op = "init" =>
        /\ outcome.status # "ok" <=> SizeMismatch(outcome.lens)
        /\ outcome.status # "ok" => ~fitter.made
        /\ outcome.status = "ok" =>
              /\ fitter.made
              /\ fitter.zredmagic = fitter.z
              /\ fitter.zredmagic_e = fitter.z_err
              /\ Len(fitter.z) = outcome.lens.z
              /\ ~fitter.afterburner

C5_Witness ==
    /\ outcome.op = "init"
    /\ outcome.status = "ValueError"
    /\ outcome.lens.zrange = 2
    /\ outcome.lens.zcal_err # outcome.lens.z
    /\ \A a \in CheckedArrays \ {"zcal_err"} : outcome.lens[a] = outcome.lens.z

\* C6: an evaluation of the cost function changes nothing in the fitter;
\* between fit calls every parameter vector keeps its cost, two evaluations
\* in a row with the same vector return the same value, and fit,
\* fit_bias_eratio and the cost function never redraw the random draws.
C6_CostDeterministic ==
    [][fitter.made =>
        /\ outcome'.op = "call" => fitter' = fitter
        /\ outcome'.op \in {"call", "fit_bias_eratio"} =>
              \A pars \in ParSet :
                  CostFunction(fitter', pars) = CostFunction(fitter, pars)
        /\ (outcome.op = "call" /\ outcome'.op = "call"
              /\ outcome'.pars = outcome.pars) => outcome'.ret = outcome.ret
        /\ outcome'.op \in {"call", "fit", "fit_bias_eratio"} =>
              fitter'.randomn = fitter.randomn]_vars

C6_Witness ==
    /\ fitter.made
    /\ outcome.op = "call"
    /\ outcome.repeat
    /\ ~NonePasses(outcome.pars)
    /\ outcome.ret.k = "fin"
    /\ \E i \in 1..N(fitter) : fitter.randomn[i] # 0 /\ fitter.zredmagic_e[i] # 0

Perms(n) == {p \in [1..n -> 1..n] : \A i, j \in 1..n : p[i] = p[j] => i = j}

PermuteSeq(a, p) == [i \in 1..Len(a) |-> a[p[i]]]

\* the fitter with one permutation applied to all its per-galaxy arrays
Permuted(f, p) ==
    [f EXCEPT !.z = PermuteSeq(f.z, p),
              !.z_err = PermuteSeq(f.z_err, p),
              !.zredmagic = PermuteSeq(f.zredmagic, p),
              !.zredmagic_e = PermuteSeq(f.zredmagic_e, p),
              !.chisq = PermuteSeq(f.chisq, p),
              !.mstar = PermuteSeq(f.mstar, p),
              !.zcal = PermuteSeq(f.zcal, p),
              !.zcal_err = PermuteSeq(f.zcal_err, p),
              !.refmag = PermuteSeq(f.refmag, p),
              !.randomn = PermuteSeq(f.randomn, p),
              !.zmax = IF Len(f.zmax) > 1 THEN PermuteSeq(f.zmax, p) ELSE f.zmax]

\* C7: whatever parameter vector the cost function was called with, it
\* returns the same value on the fitter with all its per-galaxy arrays
\* permuted by one permutation.
C7_PermutationInvariant ==
    (fitter.made /\ outcome.op = "call") =>
        \A p \in Perms(N(fitter)) :
            CostFunction(Permuted(fitter, p), outcome.pars) = outcome.ret

C7_Witness ==
    /\ fitter.made
    /\ outcome.op = "call"
    /\ N(fitter) = 2
    /\ Len(fitter.zmax) = 2
    /\ fitter.zmax[1] # fitter.zmax[2]
    /\ fitter.zredmagic[1] # fitter.zredmagic[2]
    /\ fitter.afterburner
    /\ PassesCuts(outcome.pars, 1) # PassesCuts(outcome.pars, 2)
    /\ outcome.ret.k = "fin"

\* the expected count n0 * 1e-4 * V_b of bin b
Expected(b) == fitter.n0 * fitter.volume[b]

AllPositive == \A b \in 1..Len(fitter.volume) : Expected(b) > 0

RECURSIVE SumExpected(_)
SumExpected(b) == IF b = 0 THEN 0 ELSE SumExpected(b - 1) + Expected(b)

MinExpected ==
    CHOOSE e \in {Expected(b) : b \in 1..Len(fitter.volume)} :
        \A b \in 1..Len(fitter.volume) : e <= Expected(b)

NumSelected(pars) == Cardinality({i \in 1..N(fitter) : PassesCuts(pars, i)})

\* n^2 / min_b E_b + sum_b E_b, for n selected galaxies
CostBound(pars) ==
    Fin(NumSelected(pars) * NumSelected(pars) + SumExpected(Len(fitter.volume)) * MinExpected,
        MinExpected)

\* C8 as stated: the penalty 1e11 is strictly larger than every cost
\* returned for a non-empty selection, for all samples, volumes, target
\* densities and parameter vectors.
C8_Original ==
    (fitter.made /\ outcome.op = "call" /\ ~NonePasses(outcome.pars)) =>
        FLess(outcome.ret, Penalty)

\* C8 as amended: when n0 and every bin volume are positive, the cost of a
\* non-empty selection of n galaxies is finite and at most
\* n^2 / min_b E_b + sum_b E_b with E_b = n0 * 1e-4 * V_b, so the penalty
\* is strictly larger whenever that bound is below 1e11; when n0 or a bin
\* volume is zero the cost is inf or nan and the penalty is not larger.
C8_PenaltyAboveBoundedCost ==
    (fitter.made /\ outcome.op = "call" /\ ~NonePasses(outcome.pars)) =>
        LET t == outcome.ret
            pars == outcome.pars
        IN  IF AllPositive
            THEN /\ t.k = "fin"
                 /\ ~FLess(CostBound(pars), t)
                 /\ FLess(CostBound(pars), Penalty) => FLess(t, Penalty)
            ELSE /\ t.k \in {"inf", "nan"}
                 /\ ~FLess(t, Penalty)

C8_Witness ==
    /\ fitter.made
    /\ outcome.op = "call"
    /\ ~NonePasses(outcome.pars)
    /\ AllPositive
    /\ FLess(Fin(0, 1), outcome.ret)
    /\ FLess(outcome.ret, Penalty)
    /\ outcome.ret # Penalty

\* C9: a galaxy is selected exactly when its chisq is below the threshold
\* spline taken at its raw redshift and held inside [0.1, maxchi], its
\* refmag is below mstar - 2.5 log10(etamin) and its corrected redshift is
\* below its zmax; a galaxy with chisq >= maxchi is never selected; and a
\* fit, whatever bias and error-ratio correction it installs, leaves the
\* threshold applied to every galaxy unchanged.
C9_SelectionCuts ==
    /\ [](fitter.made =>
            \A pars \in ParSet, i \in 1..N(fitter) :
                /\ i \in Gd(fitter, pars) <=> PassesCuts(pars, i)
                /\ fitter.chisq[i] >= fitter.maxchi => i \notin Gd(fitter, pars))
    /\ [][(fitter.made /\ outcome'.op = "fit") =>
            \A pars \in ParSet, i \in 1..N(fitter) :
                Chi2max(fitter', pars, i) = Chi2max(fitter, pars, i)]_vars

C9_Witness ==
    /\ fitter.made
    /\ outcome.op = "fit"
    /\ outcome.afterburner
    /\ outcome.status = "ok"
    /\ \E i \in 1..N(fitter) :
          /\ fitter.zredmagic[i] # fitter.z[i]
          /\ \E p1, p2 \in ParSet :
                /\ i \in Gd(fitter, p1)
                /\ i \notin Gd(fitter, p2)
                /\ fitter.chisq[i] >= RawThreshold(p2, i)

\* the sampled redshift of galaxy i
SampledZ(i) == fitter.randomn[i] * fitter.zredmagic_e[i] + fitter.zredmagic[i]

\* the lower edge of bin b of the equal-width bins that start at zrange[0]
BinLo(b) == fitter.zrange[1] + (b - 1) * fitter.zbinsize

\* the selected galaxies whose sampled redshift falls in bin b and not
\* above zrange[1] - 0.0001
Count(pars, b) ==
    Cardinality({i \in 1..N(fitter) :
                    /\ PassesCuts(pars, i)
                    /\ BinLo(b) <= SampledZ(i)
                    /\ SampledZ(i) < BinLo(b + 1)
                    /\ SampledZ(i) <= fitter.zrange[2] - Eps})

RECURSIVE ClaimedSum(_, _)
\* sum over the bins 1..b of (count_b - E_b)^2 / E_b, which is
\* ((count_b/V_b - n0 1e-4) / (sqrt(n0 1e-4 V_b) / V_b))^2 for E_b > 0
ClaimedSum(pars, b) ==
    IF b = 0 THEN Fin(0, 1)
    ELSE FAdd(ClaimedSum(pars, b - 1),
              Fin((Count(pars, b) - Expected(b)) * (Count(pars, b) - Expected(b)),
                  Expected(b)))

CostAsClaimed(pars, t) ==
    /\ t.k = "fin"
    /\ FEq(t, ClaimedSum(pars, Len(fitter.volume)))
    /\ ~FLess(t, Fin(0, 1))
    /\ FEq(t, Fin(0, 1)) <=>
          \A b \in 1..Len(fitter.volume) : Count(pars, b) = Expected(b)

\* C10 as stated: for a non-empty selection the cost is the sum over bins of
\* ((count_b/V_b - n0 1e-4) / (sqrt(n0 1e-4 V_b)/V_b))^2 with count_b the
\* selected galaxies sampled into bin b; it is non-negative, and zero
\* exactly when every count equals n0 1e-4 V_b.
C10_Original ==
    (fitter.made /\ outcome.op = "call" /\ ~NonePasses(outcome.pars)) =>
        CostAsClaimed(outcome.pars, outcome.ret)

\* C10 as amended: the same, provided n0 and every bin volume are positive;
\* when n0 or a bin volume is zero the quotient divides by zero and the cost
\* is inf or nan, neither non-negative-and-finite nor zero.
C10_CostFormula ==
    (fitter.made /\ outcome.op = "call" /\ ~NonePasses(outcome.pars)) =>
        IF AllPositive
        THEN CostAsClaimed(outcome.pars, outcome.ret)
        ELSE outcome.ret.k \in {"inf", "nan"}

C10_Witness ==
    /\ fitter.made
    /\ outcome.op = "call"
    /\ ~NonePasses(outcome.pars)
    /\ AllPositive
    /\ fitter.afterburner
    /\ \E i \in 1..N(fitter) :
          /\ PassesCuts(outcome.pars, i)
          /\ SampledZ(i) # fitter.z[i]
          /\ SampledZ(i) >= fitter.zrange[1]
          /\ SampledZ(i) < fitter.zrange[2]
    /\ FEq(outcome.ret, Fin(0, 1))

\* the corrected arrays are the ones some bias and error-ratio splines give
CorrectedFromSplines ==
    \E b \in BiasSet, e \in EratioSet :
        /\ fitter.zredmagic = FitZredmagic(fitter, TRUE, Some(b))
        /\ fitter.zredmagic_e = FitZredmagicE(fitter, TRUE, Some(e))

\* C18 as stated: a fit call that raises leaves the fitter exactly as it was
\* before the call (afterburner flag, corrected arrays, mstar), so that the
\* afterburner flag is set exactly when the corrected arrays come from bias
\* and error-ratio splines and is clear exactly when they are the raw ones.
C18_Original ==
    /\ [][(fitter.made /\ outcome'.op = "fit"
              /\ outcome'.status = "RuntimeError") => fitter' = fitter]_vars
    /\ [](fitter.made =>
            IF fitter.afterburner THEN CorrectedFromSplines
            ELSE /\ fitter.zredmagic = fitter.z
                 /\ fitter.zredmagic_e = fitter.z_err)

(***************************************************************************)
(* RedmagicCalibrator.run: the calibration of every target in turn, on a   *)
(* galaxy sample handed over in memory.  The volume-limit masks, the       *)
(* cosmology, the node grid of make_nodes and the minimizers are outside   *)
(* the calibrator: their results are inputs or choices here.               *)
(***************************************************************************)
\* the longest galaxy sample a calibration is run on
MaxRunGal == 3

\* lstar_cushion and z_cushion = 0.05; the redshift cushion in redshift units
ZCushion == 500

\* the afterburner rounds of "for k in xrange(5)"
NRounds == 5

\* redmagic_calib_fractrain is counted in quarters
FracUnit == 4

RunGal(z, chisq, refmag, zcal) ==
    [z |-> z, chisq |-> chisq, refmag |-> refmag, zcal |-> zcal]

\* the galaxies a sample is made of, in a fixed order
RunCatalog ==
    << RunGal(1, 0, 9, 1),
       RunGal(3, 2, 9, -1),
       RunGal(3, 1, 9, 3),
       RunGal(5, 2, 17, 5),
       RunGal(5, 1, 9, -1),
       RunGal(600, 0, 9, 1),
       RunGal(1, 3, 9, 1) >>

\* samples of at most maxn galaxies, listed in catalogue order
RunSamples(maxn) ==
    UNION {{[i \in 1..n |-> RunCatalog[ix[i]]] :
               ix \in {f \in [1..n -> 1..Len(RunCatalog)] :
                          \A i \in 1..(n - 1) : f[i] <= f[i + 1]}} :
           n \in 0..maxn}

\* config.redmagic_zrange; every target's redmagic_zmaxes entry is its end
RunZrange == <<0, 8>>

\* the node grids make_nodes returns
RunNodeSet == {<<0, 8>>, <<0, 4, 8>>}

RunZbinsizeSet == {4, 8}

\* the targets (redmagic_etas, redmagic_n0s) of a configuration
RunTargetSet ==
    { <<[etamin |-> 10, n0 |-> 1]>>,
      <<[etamin |-> 1, n0 |-> 1], [etamin |-> 10, n0 |-> 1]>> }

\* the comoving volume of a node's test window, from the cosmology and the
\* mask area at the node
TestVolSet == {1, 2}

FracTrainSet == {0, 2, 4}

RunConfigs ==
    [nodes : RunNodeSet, zbinsize : RunZbinsizeSet, targets : RunTargetSet,
     test_vol : TestVolSet, fractrain : FracTrainSet,
     run_afterburner : BOOLEAN, chisqcut : MaxchiSet]

\* corr_zrange: the range widened to a whole number of bins
CorrZrange(zr, binsize) ==
    LET nbin == ((zr[2] - zr[1]) + binsize - 1) \div binsize
    IN  <<zr[1], nbin * binsize + zr[1]>>

\* refmag < mstar - 2.5 log10(clip(eta - 0.05, 0.1, None)): at eta = 0.1 the
\* clip holds eta, above it the cut moves fainter by less than one step of
\* the magnitude grid, which lets a refmag equal to the uncushioned cut pass
BelowCushionedCut(refmag, mstar, eta) ==
    IF eta = 1 THEN refmag < mstar - Log10x25(eta)
    ELSE refmag <= mstar - Log10x25(eta)

MinEta(targets) ==
    CHOOSE e \in {targets[i].etamin : i \in 1..Len(targets)} :
        \A i \in 1..Len(targets) : e <= targets[i].etamin

\* np.where over an array of n entries: the positions that satisfy a test
Positions(n) == [i \in 1..n |-> i]

\* "use": the galaxies inside the cushioned redshift range, below the
\* chi-square cut and brighter than the cushioned luminosity cut of the
\* faintest target
Prefilter(gals, cfg) ==
    LET corr == CorrZrange(RunZrange, cfg.zbinsize)
        ok(i) == /\ gals[i].z > corr[1] - ZCushion
                 /\ gals[i].z < corr[2] + ZCushion
                 /\ gals[i].chisq < cfg.chisqcut
                 /\ BelowCushionedCut(gals[i].refmag, MstarOf(gals[i].z),
                                      MinEta(cfg.targets))
    IN  SelectSeq(Positions(Len(gals)), ok)

\* a run that goes on with an empty "use"
PrefilterNoCheck(use) == ""

\* the RuntimeError of an empty "use", "" if none
PrefilterError(use) ==
    IF Len(use) = 0 THEN "No galaxies in redshift range/chisq range/eta range."
    ELSE ""

\* gals[use]
Take(gals, idx) == [p \in 1..Len(idx) |-> gals[idx[p]]]

\* red_poss: the possible redmagic galaxies of a target
RedPoss(gals, target) ==
    LET ok(i) == BelowCushionedCut(gals[i].refmag, MstarOf(gals[i].z),
                                   target.etamin)
    IN  SelectSeq(Positions(Len(gals)), ok)

\* every position of the candidates, whatever its zcal
TrainGdAll(cand) == [p \in 1..Len(cand) |-> p]

\* gd: the positions inside gals[red_poss] that have a reference redshift
TrainGd(cand) ==
    LET ok(p) == cand[p].zcal > 0
    IN  SelectSeq(Positions(Len(cand)), ok)

\* ntrain = int(fractrain * gd.size)
Ntrain(fractrain, n) == (fractrain * n) \div FracUnit

\* afterburner_use = gd[st[0:ntrain]] for st the argsort of random numbers:
\* the first ntrain entries of some reordering of gd
AfterburnerUse(gd, ntrain) ==
    LET m == IF ntrain < Len(gd) THEN ntrain ELSE Len(gd)
    IN  {[q \in 1..m |-> gd[f[q]]] :
            f \in {g \in [1..m -> 1..Len(gd)] :
                      \A a, b \in 1..m : g[a] = g[b] => a = b}}

\* every node's window split evenly around the node
WindowSymmetric(nodes, j, binsize) ==
    <<nodes[j] - binsize \div 2, nodes[j] + binsize \div 2>>

\* zrange of node j in the search for starting values: one bin above the
\* first node, one bin below the last, half a bin either side of the others
Window(nodes, j, binsize) ==
    IF j = 1 THEN <<nodes[j], nodes[j] + binsize>>
    ELSE IF j = Len(nodes) THEN <<nodes[j] - binsize, nodes[j]>>
    ELSE <<nodes[j] - binsize \div 2, nodes[j] + binsize \div 2>>

\* u: the candidates with zuse strictly inside the window
InWindow(cand, w) ==
    LET ok(p) == cand[p].z > w[1] /\ cand[p].z < w[2]
    IN  SelectSeq(Positions(Len(cand)), ok)

\* ind = np.searchsorted(np.arange(n) / test_vol, n0 * 1e-4): the first rank
\* k (from 0) with k / test_vol >= n0 * 1e-4, n if there is none
GuessInd(n, test_vol, n0) ==
    LET reach == {k \in 0..(n - 1) : k >= n0 * test_vol}
    IN  IF reach = {} THEN n
        ELSE CHOOSE k \in reach : \A m \in reach : k <= m

\* an empty window passed over in silence
GuessRaisesNonEmptyOnly(n, ind) == n > 0 /\ ind >= n

\* st[ind] raises IndexError when ind is not a position of st
GuessRaises(n, ind) == ind >= n

\* gals.chisq[red_poss[u[st[ind]]]]: the chi-square of rank ind (from 0)
RankedChisq(cand, u, ind) ==
    LET below(c) == Cardinality({q \in 1..Len(u) : cand[u[q]].chisq < c})
        upto(c) == Cardinality({q \in 1..Len(u) : cand[u[q]].chisq <= c})
    IN  CHOOSE c \in {cand[u[q]].chisq : q \in 1..Len(u)} :
            below(c) <= ind /\ ind < upto(c)

\* the nodes whose starting value cannot be taken
BadNodes(cand, cfg, target) ==
    {j \in 1..Len(cfg.nodes) :
        LET u == InWindow(cand, Window(cfg.nodes, j, cfg.zbinsize))
        IN  GuessRaises(Len(u), GuessInd(Len(u), cfg.test_vol, target.n0))}

\* the node at which the loop over the nodes stops, 0 if it runs through
FirstBadNode(cand, cfg, target) ==
    LET bad == BadNodes(cand, cfg, target)
    IN  IF bad = {} THEN 0 ELSE CHOOSE j \in bad : \A m \in bad : j <= m

\* cmaxvals after the loop has run over the nodes 1..upto; an entry nothing
\* was stored in keeps the 0 of np.zeros
Cmaxvals(cand, cfg, target, upto) ==
    [j \in 1..upto |->
        LET u == InWindow(cand, Window(cfg.nodes, j, cfg.zbinsize))
            ind == GuessInd(Len(u), cfg.test_vol, target.n0)
        IN  IF ind < Len(u) THEN RankedChisq(cand, u, ind) ELSE 0]

\* what scipy.optimize.fmin can hand back for n nodes
FitResults(n) == {[j \in 1..n |-> c] : c \in {1, 2}}

\* no call made on the fitter of the current target
NoFitterCall ==
    [op |-> "none", afterburner |-> FALSE, p0 |-> <<>>, biaspars |-> PyNone,
     eratiopars |-> PyNone, cval |-> <<>>]

\* run before its first statement, on the sample gals under configuration cfg
StartRun(gals, cfg) ==
    [pc |-> "start", cfg |-> cfg, input |-> gals, gals |-> gals, i |-> 0,
     cand |-> <<>>, fitret |-> <<>>,
     ab_use |-> <<>>, fitter |-> NoFitter, windows |-> <<>>, badnode |-> 0,
     cmaxvals |-> <<>>, biasvals |-> <<>>, eratiovals |-> <<>>, k |-> 0,
     log |-> <<>>, last |-> NoFitterCall, fbe |-> PyNone,
     records |-> <<>>, selected |-> <<>>, error |-> ""]

\* the cut of the input galaxies
RunStart ==
    /\ run.pc = "start"
    /\ LET use == Prefilter(run.gals, run.cfg)
           msg == PrefilterError(use)
       IN  IF msg # ""
           THEN run' = [run EXCEPT !.pc = "aborted", !.error = msg]
           ELSE run' = [run EXCEPT !.pc = "target", !.i = 1,
                                   !.gals = Take(run.gals, use)]
    /\ UNCHANGED <<fitter, outcome, cluster>>

\* the head of the loop over the targets: the candidates of target i and
\* their afterburner training subset
RunTarget ==
    /\ run.pc = "target"
    /\ LET target == run.cfg.targets[run.i]
           cand == Take(run.gals, RedPoss(run.gals, target))
           gd == TrainGd(cand)
       IN  \E ab \in AfterburnerUse(gd, Ntrain(run.cfg.fractrain, Len(gd))) :
              run' = [run EXCEPT !.pc = "guess", !.cand = cand, !.ab_use = ab,
                                 !.fitter = NoFitter, !.windows = <<>>,
                                 !.badnode = 0, !.cmaxvals = <<>>,
                                 !.biasvals = <<>>, !.eratiovals = <<>>,
                                 !.k = 0, !.log = <<>>, !.last = NoFitterCall,
                                 !.fbe = PyNone, !.fitret = <<>>]
    /\ UNCHANGED <<fitter, outcome, cluster>>

\* the starting values: the loop over the nodes stops at the first node
\* whose rank is not a position of its window
RunInitialGuess ==
    /\ run.pc = "guess"
    /\ LET cfg == run.cfg
           target == cfg.targets[run.i]
           bad == FirstBadNode(run.cand, cfg, target)
           upto == IF bad = 0 THEN Len(cfg.nodes) ELSE bad
       IN  run' = [run EXCEPT
                     !.pc = IF bad = 0 THEN "firstfit" ELSE "aborted",
                     !.error = IF bad = 0 THEN "" ELSE "IndexError",
                     !.badnode = bad,
                     !.windows = [j \in 1..upto |-> Window(cfg.nodes, j, cfg.zbinsize)],
                     !.cmaxvals = Cmaxvals(run.cand, cfg, target,
                                           IF bad = 0 THEN upto ELSE bad - 1)]
    /\ UNCHANGED <<fitter, outcome, cluster>>

\* a calibration that records right after the last round
AfterRoundPcNoLast(k) == IF k < NRounds THEN "fbe" ELSE "persist"

\* where the run stands after round k of the afterburner loop
AfterRoundPc(k) == IF k < NRounds THEN "fbe" ELSE "lastfbe"

\* the fitter of the current target, as far as run looks at it
RunFitter == [made |-> TRUE, n |-> Len(run.cand), ab_use |-> Some(run.ab_use)]

\* the construction of the fitter on the candidates and the first pass,
\* fit(cmaxvals, afterburner=False); then the default bias and eratio
RunFirstFit ==
    /\ run.pc = "firstfit"
    /\ \E r \in FitResults(Len(run.cfg.nodes)) :
          run' = [run EXCEPT
                    !.pc = IF run.cfg.run_afterburner THEN "fbe" ELSE "persist",
                    !.fitter = RunFitter,
                    !.log = <<"fit">>,
                    !.last = [NoFitterCall EXCEPT !.op = "fit",
                                                  !.p0 = run.cmaxvals],
                    !.cmaxvals = r,
                    !.fitret = r,
                    !.biasvals = <<0, 0>>,
                    !.eratiovals = <<EratioUnit, EratioUnit>>]
    /\ UNCHANGED <<fitter, outcome, cluster>>

\* one fit_bias_eratio(cmaxvals, biasvals, eratiovals) and where it leads
FitBiasEratioStep(next) ==
    IF WhereUnpackRaises(run.fitter)
    THEN run' = [run EXCEPT !.pc = "aborted", !.error = "ValueError"]
    ELSE \E b \in MedZFit(BiasSet, run.biasvals),
            e \in MedZFit(EratioSet, run.eratiovals) :
            run' = [run EXCEPT
                      !.pc = next,
                      !.log = Append(run.log, "fit_bias_eratio"),
                      !.last = [NoFitterCall EXCEPT
                                  !.op = "fit_bias_eratio",
                                  !.cval = run.cmaxvals,
                                  !.biaspars = Some(run.biasvals),
                                  !.eratiopars = Some(run.eratiovals)],
                      !.fbe = Some(<<b, e>>),
                      !.biasvals = b,
                      !.eratiovals = e]

\* the fit_bias_eratio of a round
RunFitBiasEratio ==
    /\ run.pc = "fbe"
    /\ FitBiasEratioStep("fitab")
    /\ UNCHANGED <<fitter, outcome, cluster>>

\* the fit of a round, with the afterburner
RunFitAfterburner ==
    /\ run.pc = "fitab"
    /\ LET msg == FitError(run.fitter, TRUE, Some(run.biasvals),
                           Some(run.eratiovals))
       IN  IF msg # ""
           THEN run' = [run EXCEPT !.pc = "aborted", !.error = "RuntimeError"]
           ELSE \E r \in FitResults(Len(run.cfg.nodes)) :
                   run' = [run EXCEPT
                             !.pc = AfterRoundPc(run.k + 1),
                             !.k = run.k + 1,
                             !.log = Append(run.log, "fit_afterburner"),
                             !.last = [NoFitterCall EXCEPT
                                         !.op = "fit",
                                         !.afterburner = TRUE,
                                         !.p0 = run.cmaxvals,
                                         !.biaspars = Some(run.biasvals),
                                         !.eratiopars = Some(run.eratiovals)],
                             !.cmaxvals = r,
                             !.fitret = r]
    /\ UNCHANGED <<fitter, outcome, cluster>>

\* the last fit_bias_eratio, after the rounds
RunLastFitBiasEratio ==
    /\ run.pc = "lastfbe"
    /\ FitBiasEratioStep("persist")
    /\ UNCHANGED <<fitter, outcome, cluster>>

\* calstr.to_fits_file: the record of target i with cmax, bias and eratio
RunPersist ==
    /\ run.pc = "persist"
    /\ run' = [run EXCEPT
                 !.pc = "select",
                 !.fitter = NoFitter,
                 !.log = Append(run.log, "persist"),
                 !.records = Append(run.records,
                                    [target |-> run.i, cmax |-> run.cmaxvals,
                                     bias |-> run.biasvals,
                                     eratio |-> run.eratiovals])]
    /\ UNCHANGED <<fitter, outcome, cluster>>

\* select_redmagic_galaxies on the calibration galaxies and the plots; then
\* the next target, or the end of run
RunSelect ==
    /\ run.pc = "select"
    /\ run' = [run EXCEPT
                 !.pc = IF run.i < Len(run.cfg.targets) THEN "target" ELSE "done",
                 !.i = IF run.i < Len(run.cfg.targets) THEN run.i + 1 ELSE run.i,
                 !.log = Append(run.log, "select"),
                 !.selected = Append(run.selected, run.i)]
    /\ UNCHANGED <<fitter, outcome, cluster>>

InitRun ==
    /\ fitter = NoFitter
    /\ outcome = NoOutcome
    /\ cluster = NoCluster
    /\ run \in {StartRun(gals, cfg) :
                   gals \in RunSamples(MaxRunGal), cfg \in RunConfigs}

NextRun ==
    \/ RunStart \/ RunTarget \/ RunInitialGuess \/ RunFirstFit
    \/ RunFitBiasEratio \/ RunFitAfterburner \/ RunLastFitBiasEratio
    \/ RunPersist \/ RunSelect

SpecRun == InitRun /\ [][NextRun]_vars

(***************************************************************************)
(* Properties of the calibration loop.                                     *)
(***************************************************************************)
\* the operations of one target's calibration with the afterburner enabled
RoundOps == <<"fit_bias_eratio", "fit_afterburner">>

ExpectedOps ==
    <<"fit">> \o RoundOps \o RoundOps \o RoundOps \o RoundOps \o RoundOps
              \o <<"fit_bias_eratio", "persist", "select">>

IsPrefix(a, b) == Len(a) <= Len(b) /\ \A n \in 1..Len(a) : a[n] = b[n]

\* the run has begun the calibration of target run.i
InTarget == run.pc \notin {"none", "start", "target"} /\ run.i >= 1

\* C11: with the afterburner enabled the operations of a target's
\* calibration are, in this order, a fit without afterburner, five rounds
\* of fit_bias_eratio on the thresholds the latest fit returned followed by
\* a fit with afterburner on the bias and eratio that fit_bias_eratio just
\* returned, one last fit_bias_eratio, the record, the selection; the record
\* holds the last fit's thresholds and the last fit_bias_eratio's bias and
\* eratio, and a target is selected only when its record is there.
C11_AfterburnerOrder ==
    (InTarget /\ run.cfg.run_afterburner) =>
        /\ IsPrefix(run.log, ExpectedOps)
        /\ run.pc \in {"select", "done"} =>
              (run.pc = "done" <=> run.log = ExpectedOps)
        /\ (run.last.op = "fit" /\ ~run.last.afterburner) => Len(run.log) <= 2
        /\ run.last.op = "fit_bias_eratio" => run.last.cval = run.fitret
        /\ (run.last.op = "fit" /\ run.last.afterburner) =>
              /\ run.last.biaspars = Some(run.fbe.v[1])
              /\ run.last.eratiopars = Some(run.fbe.v[2])
        /\ \A n \in 1..Len(run.log) :
              run.log[n] = "persist" =>
                 LET rec == run.records[Len(run.records)]
                 IN  /\ rec.target = run.i
                     /\ rec.cmax = run.fitret
                     /\ rec.bias = run.fbe.v[1]
                     /\ rec.eratio = run.fbe.v[2]
        /\ \A n \in 1..Len(run.selected) :
              \E m \in 1..Len(run.records) :
                 run.records[m].target = run.selected[n]

C11_Witness ==
    /\ run.pc = "done"
    /\ run.cfg.run_afterburner
    /\ run.log = ExpectedOps
    /\ Len(run.records) = Len(run.cfg.targets)
    /\ run.records[Len(run.records)].bias # <<0, 0>>

\* node j's window holds no candidate of the current target
EmptyWindow(j) ==
    LET w == Window(run.cfg.nodes, j, run.cfg.zbinsize)
    IN  \A p \in 1..Len(run.cand) :
           ~(run.cand[p].z > w[1] /\ run.cand[p].z < w[2])

\* C12: when a node's window holds no candidate galaxy the target's
\* calibration aborts with an error at or before that node: no starting
\* value is produced for the node, no fitter is built, no fit is made and
\* no record of the target is persisted.
C12_EmptyWindowAborts ==
    InTarget =>
        \A j \in 1..Len(run.cfg.nodes) :
            (run.pc # "guess" /\ EmptyWindow(j)) =>
                /\ run.pc = "aborted"
                /\ run.error = "IndexError"
                /\ run.badnode >= 1 /\ run.badnode <= j
                /\ Len(run.cmaxvals) < j
                /\ ~run.fitter.made
                /\ run.log = <<>>
                /\ \A m \in 1..Len(run.records) : run.records[m].target # run.i

C12_Witness ==
    /\ InTarget
    /\ run.pc = "aborted"
    /\ run.badnode = 2
    /\ EmptyWindow(2)
    /\ ~EmptyWindow(1)
    /\ Len(run.cmaxvals) = 1

\* a galaxy of the input passes the cut of the input galaxies
PassesPrefilter(g) ==
    LET corr == CorrZrange(RunZrange, run.cfg.zbinsize)
    IN  /\ g.z > corr[1] - ZCushion
        /\ g.z < corr[2] + ZCushion
        /\ g.chisq < run.cfg.chisqcut
        /\ BelowCushionedCut(g.refmag, MstarOf(g.z), MinEta(run.cfg.targets))

NonePassesPrefilter ==
    \A n \in 1..Len(run.input) : ~PassesPrefilter(run.input[n])

\* C13: when no galaxy of the input is inside the cushioned redshift range,
\* below the chi-square cut and brighter than the cushioned luminosity cut,
\* run raises its error before the first target: no target is begun, no
\* fitter is built, no fit is made and no record is persisted; and it raises
\* that error in no other case.
C13_EmptyPrefilterAborts ==
    run.pc \notin {"none", "start"} =>
        /\ NonePassesPrefilter =>
              /\ run.pc = "aborted"
              /\ run.error = "No galaxies in redshift range/chisq range/eta range."
              /\ run.i = 0
              /\ ~run.fitter.made
              /\ run.log = <<>>
              /\ run.records = <<>>
        /\ run.error = "No galaxies in redshift range/chisq range/eta range."
              => NonePassesPrefilter

C13_Witness ==
    /\ run.pc = "aborted"
    /\ run.i = 0
    /\ Len(run.input) = 3
    /\ run.input[1].refmag > MstarOf(run.input[1].z)
    /\ run.input[2].z > RunZrange[2] + ZCushion
    /\ run.input[3].chisq >= run.cfg.chisqcut

\* C14: on a grid of at least two nodes the window of the first node is
\* [node, node + binsize], of the last [node - binsize, node] and of every
\* node between them [node - binsize/2, node + binsize/2]; each is one bin
\* wide.
C14_NodeWindows ==
    (InTarget /\ Len(run.cfg.nodes) >= 2) =>
        \A j \in 1..Len(run.windows) :
            LET node == run.cfg.nodes[j]
                b == run.cfg.zbinsize
                w == run.windows[j]
            IN  /\ j = 1 => w = <<node, node + b>>
                /\ j = Len(run.cfg.nodes) => w = <<node - b, node>>
                /\ (j > 1 /\ j < Len(run.cfg.nodes)) =>
                      (2 * w[1] = 2 * node - b /\ 2 * w[2] = 2 * node + b)
                /\ w[2] - w[1] = b

C14_Witness ==
    /\ InTarget
    /\ run.pc \in {"done", "aborted"}
    /\ Len(run.cfg.nodes) = 3
    /\ Len(run.windows) = 3
    /\ run.windows[2] # run.windows[1]
    /\ run.windows[2] # run.windows[3]

\* the candidates of the current target that have a reference redshift
NumValidZcal == Cardinality({p \in 1..Len(run.cand) : run.cand[p].zcal > 0})

\* C16: the training subset handed to the fitter holds distinct positions
\* of the fitter's per-galaxy arrays, each of a galaxy with zcal > 0, and
\* floor(fractrain * number of candidates with zcal > 0) of them.
C16_TrainingSubset ==
    (InTarget /\ run.fitter.made) =>
        LET ab == run.fitter.ab_use.v
        IN  /\ ~run.fitter.ab_use.none
            /\ \A a, b \in 1..Len(ab) : ab[a] = ab[b] => a = b
            /\ \A a \in 1..Len(ab) :
                  /\ ab[a] \in 1..run.fitter.n
                  /\ run.cand[ab[a]].zcal > 0
                  /\ run.cand[ab[a]].zcal # -1
            /\ FracUnit * Len(ab) <= run.cfg.fractrain * NumValidZcal
            /\ run.cfg.fractrain * NumValidZcal < FracUnit * (Len(ab) + 1)

C16_Witness ==
    /\ InTarget
    /\ run.fitter.made
    /\ Len(run.fitter.ab_use.v) >= 1
    /\ Len(run.fitter.ab_use.v) < NumValidZcal
    /\ \E p \in 1..Len(run.cand) : run.cand[p].zcal = -1

\* C17 as stated: at every node whose window holds at least one candidate
\* the rank taken is a position of the window's sorted chi-squares, so the
\* starting value is produced and the index is never out of range, also
\* when the target density asks for more galaxies than the window holds.
C17_Original ==
    (InTarget /\ run.pc # "guess") =>
        \A j \in 1..Len(run.windows) :
            ~EmptyWindow(j) => (run.badnode # j /\ j <= Len(run.cmaxvals))

(***************************************************************************)
(* redmapper/cluster.py: Cluster.find_members, the radius search of a      *)
(* cluster over a galaxy catalogue.  Positions lie on a line, in degrees.  *)
(***************************************************************************)
\* the names the module binds: its imports and its two classes
ModuleNames ==
    {"fitsio", "eu", "np", "itertools", "Catalog", "DataEntry",
     "ClusterCatalog", "Cluster"}

ClusterPositions == {0, 2}

GalaxyPositions == {0, 1, 3}

\* the longest galaxy catalogue searched
MaxCatalog == 3

GalaxyCatalogs == UNION {[1..n -> GalaxyPositions] : n \in 0..MaxCatalog}

\* radius arguments, in degrees: absent, negative, inside [0, 360], beyond
RadiusArgs == {PyNone, Some(-1), Some(0), Some(2), Some(361)}

NewCluster(ra, member_probs) ==
    [op |-> "none", ra |-> ra, member_probs |-> member_probs,
     status |-> "ok", msg |-> "", radius |-> PyNone, galcat |-> PyNone,
     returned |-> PyNone, members |-> PyNone]

Dist(a, b) == IF a >= b THEN a - b ELSE b - a

\* the catalogue-level multi-match at radius r: the galaxies of galcat
\* within r of the position
MatchMany(galcat, ra, r) ==
    {n \in 1..Len(galcat) : Dist(galcat[n], ra) < r}

\* find_members(radius, galcat), statement by statement
FindMembers ==
    /\ \E radius \in RadiusArgs, gc \in OptArgs(GalaxyCatalogs) :
          LET c == [cluster EXCEPT !.op = "find_members", !.radius = radius,
                                   !.galcat = gc, !.status = "ok", !.msg = "",
                                   !.returned = PyNone]
          IN  IF cluster.member_probs /\ radius.none
              THEN cluster' = [c EXCEPT !.returned = Some("member_probs")]
              ELSE IF gc.none
              THEN cluster' = [c EXCEPT !.status = "ValueError",
                                 !.msg = "A GalaxyCatalog object must be specified."]
              ELSE IF radius.none \/ radius.v < 0 \/ radius.v > 360
              THEN cluster' = [c EXCEPT !.status = "ValueError",
                                 !.msg = "A radius in degrees must be specified."]
              ELSE IF "galaxy_list" \notin ModuleNames
              THEN cluster' = [c EXCEPT !.status = "NameError",
                                 !.msg = "name 'galaxy_list' is not defined"]
              ELSE cluster' = [c EXCEPT !.members =
                                 Some(MatchMany(gc.v, cluster.ra, radius.v))]
    /\ UNCHANGED <<fitter, outcome, run>>

InitCluster ==
    /\ fitter = NoFitter
    /\ outcome = NoOutcome
    /\ run = NoRun
    /\ cluster \in {NewCluster(ra, mp) : ra \in ClusterPositions, mp \in BOOLEAN}

NextCluster == FindMembers

SpecCluster == InitCluster /\ [][NextCluster]_vars

\* C15 as stated: a radius search of a cluster over a catalogue, at a radius
\* r, returns galaxies that all lie nearer than r, as many as the multi-match
\* at radius r assigns to the cluster.
C15_Original ==
    (/\ cluster.op = "find_members"
     /\ ~cluster.galcat.none
     /\ ~cluster.radius.none
     /\ cluster.radius.v >= 0 /\ cluster.radius.v <= 360) =>
        /\ cluster.status = "ok"
        /\ ~cluster.members.none
        /\ \A n \in cluster.members.v :
              Dist(cluster.galcat.v[n], cluster.ra) < cluster.radius.v
        /\ Cardinality(cluster.members.v)
              = Cardinality(MatchMany(cluster.galcat.v, cluster.ra,
                                      cluster.radius.v))

====
